---- MODULE Spec2Model ----
(***************************************************************************)
(* Model of main.py: the Model class (read_csv loader, pre_process,        *)
(* train) and the __main__ driver loop that repeats the pipeline num_runs  *)
(* times, collects one result row per run and writes them with savetxt.    *)
(*                                                                         *)
(* Library calls are modelled by what they compute: MinMaxScaler((-1,1)),  *)
(* train_test_split(test_size=0.15), accuracy_score, confusion_matrix and  *)
(* numpy.savetxt. Floating point values are IEEE-754 binary64 values       *)
(* sign * man * 2^exp with a 53 bit significand, and every operation on    *)
(* them rounds to nearest, ties to even, as the hardware does. Feature    *)
(* cells of the file are decimal numerals with two places, which read_csv  *)
(* turns into the nearest floats.                                          *)
(* XGBClassifier is a black box: fit either raises (labels that are not    *)
(* 0..k-1) or yields a model whose predictions are any label vector.       *)
(***************************************************************************)
EXTENDS Integers, Sequences, FiniteSets, TLC

VARIABLES
    num_runs,   \* driver: num_runs (line 105), an input of the process
    disk,       \* the file data/parkinsons.data as the process finds it
    dur,        \* wall-clock ticks each stage takes (input of the environment)
    pc,         \* position of the driver
    iter,       \* next value range(num_runs) yields
    run,        \* loop variable `run` (-1 while unbound)
    results,    \* driver: results
    now,        \* wall clock, in ticks since process start
    t0,         \* driver: t0
    time_len,   \* driver: time_len
    data,       \* parkinsons.data (the DataFrame)
    x, y,       \* parkinsons.x, parkinsons.y
    x_train, x_test, y_train, y_test,
    model,      \* parkinsons.model
    y_pred,     \* parkinsons.y_pred
    accuracy,   \* parkinsons.accuracy (NoValue while unset)
    stdout,     \* lines printed
    shown,      \* figures displayed by plt.show(), in order
    out,        \* the file xgboost_results.csv as written by this process
    exitcode,   \* process exit status (-1 while running)
    error,      \* exception that ended the process ("none" if none)
    reads,      \* number of pd.read_csv calls made
    writes,     \* number of np.savetxt calls made
    trace       \* stages completed so far, as <<run, stage>>

vars == <<num_runs, disk, dur, pc, iter, run, results, now, t0, time_len,
          data, x, y, x_train, x_test, y_train, y_test, model, y_pred,
          accuracy, stdout, shown, out, exitcode, error, reads, writes, trace>>

obj == <<x, y, x_train, x_test, y_train, y_test, model, y_pred, accuracy>>
inputs == <<num_runs, disk, dur>>

----------------------------------------------------------------------------
(* Bounds of the model *)

MaxRuns == 3
MaxRows == 4
MaxScaleRows == 2
MaxVal == 1
MaxTick == 1

(* Program constants *)

FeatureRangeMin == -1
FeatureRangeMax == 1
TestSizePct == 15
LoaderExitCode == 1
UncaughtExitCode == 1
NEstimators == 100

Labels == {0, 1}
Stages == {"load", "pre_process", "fit", "predict", "plot_loss", "plot_cm"}

----------------------------------------------------------------------------
(* Natural numbers of any size: limbs in base 2^15, least significant     *)
(* first, no leading zero limb                                            *)

Base == 2^15
MantBits == 53

Abs(a) == IF a < 0 THEN -a ELSE a
Sgn(a) == IF a < 0 THEN -1 ELSE IF a = 0 THEN 0 ELSE 1

RECURSIVE Pow2(_)
Pow2(n) == IF n = 0 THEN 1 ELSE 2 * Pow2(n - 1)

RECURSIVE IntBits(_)
IntBits(k) == IF k = 0 THEN 0 ELSE 1 + IntBits(k \div 2)

RECURSIVE BNorm(_)
BNorm(a) == IF a = <<>> THEN <<>>
            ELSE IF a[Len(a)] = 0 THEN BNorm(SubSeq(a, 1, Len(a) - 1))
            ELSE a

RECURSIVE BFromInt(_)
BFromInt(k) == IF k = 0 THEN <<>> ELSE <<k % Base>> \o BFromInt(k \div Base)

RECURSIVE BToInt(_)
BToInt(a) == IF a = <<>> THEN 0 ELSE Head(a) + Base * BToInt(Tail(a))

Limb(a, i) == IF i <= Len(a) THEN a[i] ELSE 0
Rest(a) == IF a = <<>> THEN <<>> ELSE Tail(a)
BBits(a) == IF a = <<>> THEN 0 ELSE 15 * (Len(a) - 1) + IntBits(a[Len(a)])

RECURSIVE BAddC(_, _, _)
BAddC(a, b, c) ==
    IF a = <<>> /\ b = <<>> THEN (IF c = 0 THEN <<>> ELSE <<c>>)
    ELSE LET t == Limb(a, 1) + Limb(b, 1) + c
         IN  <<t % Base>> \o BAddC(Rest(a), Rest(b), t \div Base)
BAdd(a, b) == BAddC(a, b, 0)

\* a - b for a >= b
RECURSIVE BSubC(_, _, _)
BSubC(a, b, c) ==
    IF a = <<>> THEN <<>>
    ELSE LET t == Head(a) - Limb(b, 1) - c
         IN  <<t % Base>> \o BSubC(Tail(a), Rest(b), IF t < 0 THEN 1 ELSE 0)
BSub(a, b) == BNorm(BSubC(a, b, 0))

RECURSIVE BCmpAt(_, _, _)
BCmpAt(a, b, i) ==
    IF i = 0 THEN 0
    ELSE IF a[i] > b[i] THEN 1
    ELSE IF a[i] < b[i] THEN -1
    ELSE BCmpAt(a, b, i - 1)
BCmp(a, b) == IF Len(a) > Len(b) THEN 1
              ELSE IF Len(a) < Len(b) THEN -1
              ELSE BCmpAt(a, b, Len(a))

\* a * k and a divided by k, for 0 <= k < Base
RECURSIVE BMulC(_, _, _)
BMulC(a, k, c) ==
    IF a = <<>> THEN BFromInt(c)
    ELSE LET t == Head(a) * k + c
         IN  <<t % Base>> \o BMulC(Tail(a), k, t \div Base)
BMulSmall(a, k) == IF k = 0 THEN <<>> ELSE BMulC(a, k, 0)

\* a * b
RECURSIVE BMul(_, _)
BMul(a, b) ==
    IF a = <<>> \/ b = <<>> THEN <<>>
    ELSE LET hi == BMul(a, Tail(b))
         IN  BAdd(BMulSmall(a, Head(b)), IF hi = <<>> THEN <<>> ELSE <<0>> \o hi)

RECURSIVE BDivRem(_, _)
BDivRem(a, k) ==
    IF a = <<>> THEN <<<<>>, 0>>
    ELSE LET hi  == BDivRem(Tail(a), k)
             cur == hi[2] * Base + Head(a)
         IN  <<<<cur \div k>> \o hi[1], cur % k>>

BShl(a, n) == IF a = <<>> THEN <<>>
              ELSE [i \in 1..(n \div 15) |-> 0] \o BMulSmall(a, Pow2(n % 15))
BShr(a, n) == IF Len(a) <= n \div 15 THEN <<>>
              ELSE BNorm(BDivRem(SubSeq(a, (n \div 15) + 1, Len(a)), Pow2(n % 15))[1])

(* float64: [sign, man, exp] stands for sign * man * 2^exp, where man has *)
(* exactly 53 bits, or is zero                                            *)

F64Zero == [sign |-> 0, man |-> <<>>, exp |-> 0]

\* the float64 nearest to s * M * 2^e, ties to even
F64Round(s, M, e) ==
    IF M = <<>> \/ s = 0 THEN F64Zero
    ELSE IF BBits(M) <= MantBits
    THEN [sign |-> s, man |-> BShl(M, MantBits - BBits(M)), exp |-> e - (MantBits - BBits(M))]
    ELSE LET r    == BBits(M) - MantBits
             q    == BShr(M, r)
             rem  == BSub(M, BShl(q, r))
             c    == BCmp(rem, BShl(<<1>>, r - 1))
             up   == c > 0 \/ (c = 0 /\ q[1] % 2 = 1)
             q2   == IF up THEN BAdd(q, <<1>>) ELSE q
         IN  IF BBits(q2) > MantBits
             THEN [sign |-> s, man |-> BShr(q2, 1), exp |-> e + r + 1]
             ELSE [sign |-> s, man |-> q2, exp |-> e + r]

\* float(k) for an integer k
F64FromInt(k) == F64Round(Sgn(k), BFromInt(Abs(k)), 0)

\* float(p) / float(q) for integers p and q, 0 < |q| < Base: the quotient
\* to 2^-75 with a sticky bit for the remainder, then rounded
F64Div(p, q) ==
    LET qr == BDivRem(BShl(BFromInt(Abs(p)), 75), Abs(q))
        m2 == BAdd(BMulSmall(BNorm(qr[1]), 2), IF qr[2] = 0 THEN <<>> ELSE <<1>>)
    IN  F64Round(Sgn(p) * Sgn(q), m2, -76)

\* float(k) * f for an integer k, |k| < Base
F64MulInt(k, f) == F64Round(Sgn(k) * f.sign, BMulSmall(f.man, Abs(k)), f.exp)

F64Neg(f) == [f EXCEPT !.sign = -f.sign]

\* exact sums and products of floats: sign * man * 2^exp with man of any size
DyAdd(a, b) ==
    IF a.sign = 0 THEN b
    ELSE IF b.sign = 0 THEN a
    ELSE LET e  == IF a.exp < b.exp THEN a.exp ELSE b.exp
             ma == BShl(a.man, a.exp - e)
             mb == BShl(b.man, b.exp - e)
             c  == BCmp(ma, mb)
         IN  IF a.sign = b.sign THEN [sign |-> a.sign, man |-> BAdd(ma, mb), exp |-> e]
             ELSE IF c = 0 THEN F64Zero
             ELSE IF c > 0 THEN [sign |-> a.sign, man |-> BSub(ma, mb), exp |-> e]
             ELSE [sign |-> b.sign, man |-> BSub(mb, ma), exp |-> e]
DySub(a, b) == DyAdd(a, F64Neg(b))
DyMul(a, b) ==
    IF a.sign = 0 \/ b.sign = 0 THEN F64Zero
    ELSE [sign |-> a.sign * b.sign, man |-> BMul(a.man, b.man), exp |-> a.exp + b.exp]
DyAbs(a) == [a EXCEPT !.sign = Abs(a.sign)]
DyLeq(a, b) == DySub(a, b).sign <= 0
\* a * 2^k
DyShift(a, k) == IF a.sign = 0 THEN a ELSE [a EXCEPT !.exp = a.exp + k]

F64Add(a, b) == LET d == DyAdd(a, b) IN F64Round(d.sign, d.man, d.exp)
F64Mul(a, b) == LET d == DyMul(a, b) IN F64Round(d.sign, d.man, d.exp)

\* the first n bits of r / d for 2 * d > r: q collects them, and what is
\* left of r is zero exactly when the division has come out even (q is
\* looked at in every step, so that it is worked out as it grows)
RECURSIVE LongDiv(_, _, _, _)
LongDiv(r, d, n, q) ==
    IF n = 0 \/ Len(q) < 0 THEN <<q, r>>
    ELSE IF BCmp(r, d) >= 0
    THEN LongDiv(BMulSmall(BSub(r, d), 2), d, n - 1, BAdd(BMulSmall(q, 2), <<1>>))
    ELSE LongDiv(BMulSmall(r, 2), d, n - 1, BMulSmall(q, 2))

\* a / b for floats, b not zero: 56 bits of the quotient of the significands
\* and a sticky bit for the remainder, then rounded
F64Quot(a, b) ==
    IF a.sign = 0 THEN F64Zero
    ELSE LET qr == LongDiv(a.man, b.man, 56, <<>>)
             m2 == BAdd(BMulSmall(qr[1], 2), IF qr[2] = <<>> THEN <<>> ELSE <<1>>)
         IN  F64Round(a.sign * b.sign, m2, a.exp - b.exp - 56)

F64Sub(a, b) == F64Add(a, F64Neg(b))
\* a <= b: the sign of the exact difference
F64Leq(a, b) == DyLeq(a, b)
F64Min(S) == CHOOSE m \in S : \A v \in S : F64Leq(m, v)
F64Max(S) == CHOOSE m \in S : \A v \in S : F64Leq(v, m)

\* int(f): the integer part, toward zero
F64Trunc(f) ==
    IF f.sign = 0 THEN 0
    ELSE IF f.exp >= 0 THEN f.sign * BToInt(BShl(f.man, f.exp))
    ELSE f.sign * BToInt(BShr(f.man, -f.exp))

(* Sequences *)

Range(s) == {s[i] : i \in 1..Len(s)}
SetMin(S) == CHOOSE m \in S : \A v \in S : m <= v
SetMax(S) == CHOOSE m \in S : \A v \in S : v <= m

RECURSIVE SortedSeq(_)
SortedSeq(S) == IF S = {} THEN <<>>
                ELSE LET m == SetMin(S) IN <<m>> \o SortedSeq(S \ {m})

RECURSIVE SumSeq(_)
SumSeq(s) == IF s = <<>> THEN 0 ELSE Head(s) + SumSeq(Tail(s))

----------------------------------------------------------------------------
(* Files and tables *)

Missing == [present |-> FALSE, columns |-> <<>>, rows |-> <<>>]
Table(cols, rws) == [present |-> TRUE, columns |-> cols, rows |-> rws]
NoFile == [exists |-> FALSE, rows |-> <<>>]
NoValue == [sign |-> 0, man |-> <<>>, exp |-> 1]

Header == <<"name", "f1", "status", "f2">>
BadHeader == <<"name", "f1", "f2">>

\* A feature cell of the file is a decimal numeral with two places, held as
\* its number of hundredths: 45 stands for the text 0.45. The name and status
\* cells are held as they are.
Hundredths == 100
ParseFloat(c) == F64Div(c, Hundredths)

\* pd.read_csv: the feature columns become float64 columns
ReadCsv(file) ==
    [file EXCEPT !.rows =
        [i \in 1..Len(file.rows) |->
            [j \in 1..Len(file.columns) |->
                IF file.columns[j] \in {"name", "status"}
                THEN file.rows[i][j]
                ELSE ParseFloat(file.rows[i][j])]]]

ColumnIndex(cols, name) == CHOOSE j \in 1..Len(cols) : cols[j] = name

\* data.loc[:, data.columns != 'status'].values[:, 1:]
FeatureColumns(cols) ==
    LET keep == SelectSeq([j \in 1..Len(cols) |-> j], LAMBDA j : cols[j] # "status")
    IN  IF keep = <<>> THEN <<>> ELSE Tail(keep)

FeatureMatrix(tbl) ==
    LET fc == FeatureColumns(tbl.columns)
    IN  [i \in 1..Len(tbl.rows) |-> [k \in 1..Len(fc) |-> tbl.rows[i][fc[k]]]]

\* data.loc[:, 'status'].values
LabelVector(tbl) ==
    LET c == ColumnIndex(tbl.columns, "status")
    IN  [i \in 1..Len(tbl.rows) |-> tbl.rows[i][c]]

----------------------------------------------------------------------------
(* sklearn.preprocessing.MinMaxScaler((-1, 1)).fit_transform *)

Column(X, j) == {X[i][j] : i \in 1..Len(X)}
\* variant: the minimum of the whole matrix rather than of column j
DataMin_Global(X, j) == F64Min(UNION {Column(X, k) : k \in 1..Len(X[1])})
DataMin(X, j) == F64Min(Column(X, j))
DataMax(X, j) == F64Max(Column(X, j))
DataRange(X, j) == F64Sub(DataMax(X, j), DataMin(X, j))

\* a zero range is replaced by 1 (releases that also replace a range below
\* 10 * 2^-52 agree on every table here, whose cells are hundredths)
HandleZerosInScale(r) == IF r = F64Zero THEN F64FromInt(1) ELSE r

\* scale_ = (max - min of the feature range) / data_range
Scale_(X, j) ==
    F64Quot(F64FromInt(FeatureRangeMax - FeatureRangeMin), HandleZerosInScale(DataRange(X, j)))
\* min_ = feature_range[0] - data_min * scale_
Min_(X, j) == F64Sub(F64FromInt(FeatureRangeMin), F64Mul(DataMin(X, j), Scale_(X, j)))

\* X *= scale_; X += min_
FitTransform(X) ==
    LET sc == [j \in 1..Len(X[1]) |-> Scale_(X, j)]
        mn == [j \in 1..Len(X[1]) |-> Min_(X, j)]
    IN  [i \in 1..Len(X) |->
            [j \in 1..Len(X[1]) |-> F64Add(F64Mul(X[i][j], sc[j]), mn[j])]]

----------------------------------------------------------------------------
(* sklearn.model_selection.train_test_split(x, y, test_size=0.15) *)

NTest(n) == (TestSizePct * n + 99) \div 100
NTrain(n) == n - NTest(n)

\* the rows with their labels, in file order
Zip(X, Y) == [i \in 1..Len(X) |-> <<X[i], Y[i]>>]

RemoveAt(s, i) == SubSeq(s, 1, i - 1) \o SubSeq(s, i + 1, Len(s))

\* every ordering of the elements of s (an ordering that differs from
\* another only by exchanging equal elements is the same sequence)
RECURSIVE Orderings(_)
Orderings(s) ==
    IF s = <<>> THEN {<<>>}
    ELSE UNION {{<<s[i]>> \o t : t \in Orderings(RemoveAt(s, i))}
                : i \in {k \in 1..Len(s) : \A j \in 1..(k - 1) : s[j] # s[k]}}

\* the rows in the order of rng.permutation(n): any ordering at all
Shuffled(X, Y) == Orderings(Zip(X, Y))

\* variant: the labels are cut in file order while the rows are shuffled
TrainTestSplit_Misaligned(X, Y, sh) ==
    LET n == Len(X)
    IN  [x_train |-> [i \in 1..NTrain(n) |-> sh[NTest(n) + i][1]],
         x_test  |-> [i \in 1..NTest(n) |-> sh[i][1]],
         y_train |-> [i \in 1..NTrain(n) |-> Y[NTest(n) + i]],
         y_test  |-> [i \in 1..NTest(n) |-> Y[i]]]

\* test = the first n_test places of the permutation, train = the others;
\* X and Y are indexed by the same places
TrainTestSplit(X, Y, sh) ==
    LET n == Len(X)
    IN  [x_train |-> [i \in 1..NTrain(n) |-> sh[NTest(n) + i][1]],
         x_test  |-> [i \in 1..NTest(n) |-> sh[i][1]],
         y_train |-> [i \in 1..NTrain(n) |-> sh[NTest(n) + i][2]],
         y_test  |-> [i \in 1..NTest(n) |-> sh[i][2]]]

----------------------------------------------------------------------------
(* XGBClassifier(use_label_encoder=False).fit / predict *)

Unfitted == [fitted |-> FALSE, classes |-> <<>>]

Classes(Y) == SortedSeq(Range(Y))

\* what fit prints with an eval_set and its default verbose=True: one line
\* for each boosting round, "[i]\tvalidation_0-logloss:...\tvalidation_1-
\* logloss:..."; the two losses are the booster's and are left out
EvalLine(i) == <<"[", i, "]", "validation_0-logloss", "validation_1-logloss">>
EvalLog == [i \in 1..NEstimators |-> EvalLine(i - 1)]
ValidClasses(Y) == Classes(Y) = [i \in 1..Cardinality(Range(Y)) |-> i - 1]
PredLabels(m) == IF Len(m.classes) <= 2 THEN {0, 1} ELSE Range(m.classes)

(* sklearn.metrics.accuracy_score and confusion_matrix *)

Matches(yt, yp) == Cardinality({i \in 1..Len(yt) : yt[i] = yp[i]})
AccuracyScore(yt, yp) == F64Div(Matches(yt, yp), Len(yt))
AccuracyPct(yt, yp) == F64MulInt(100, AccuracyScore(yt, yp))

UniqueLabels(yt, yp) == SortedSeq(Range(yt) \cup Range(yp))
\* variant: the matrix is indexed by the true labels only
ConfusionMatrix_TrueLabels(yt, yp) ==
    LET lab == SortedSeq(Range(yt))
    IN  [a \in 1..Len(lab) |->
            [b \in 1..Len(lab) |->
                Cardinality({i \in 1..Len(yt) : yt[i] = lab[a] /\ yp[i] = lab[b]})]]

ConfusionMatrix(yt, yp) ==
    LET lab == UniqueLabels(yt, yp)
    IN  [a \in 1..Len(lab) |->
            [b \in 1..Len(lab) |->
                Cardinality({i \in 1..Len(yt) : yt[i] = lab[a] /\ yp[i] = lab[b]})]]

(* numpy.savetxt(fname, results, delimiter=','): one line per row of the  *)
(* float array; '%.18e' renders each float64 without loss, so a line is   *)
(* modelled by the values it holds.                                       *)
(* np.asarray turns a row [run, accuracy, time_len] into three floats.    *)
AsFloatRow(r) == <<F64FromInt(r[1]), r[2], F64FromInt(r[3])>>
SaveTxt(res) == [exists |-> TRUE, rows |-> [i \in 1..Len(res) |-> AsFloatRow(res[i])]]

\* variants: the clock is not rebased; the run index is one-based
TimeLen_FromStart(tnow, tstart) == tnow
ResultsArr_OneBased(r, acc, tl) == <<r + 1, acc, tl>>

TimeLen(tnow, tstart) == tnow - tstart
ResultsArr(r, acc, tl) == <<r, acc, tl>>

----------------------------------------------------------------------------
(* Inputs *)

\* rows <<name, f1, status, f2>>
Row(i, f1, st, f2) == <<i, f1, st, f2>>

\* seven rows, the least number for which two rows are held out; rows of
\* three kinds
SevenRowTable ==
    Table(Header, <<Row(1, 1, 0, 0), Row(2, 2, 1, 0), Row(3, 2, 1, 0), Row(4, 1, 0, 0),
                    Row(5, 2, 1, 0), Row(6, 3, 1, 0), Row(7, 2, 1, 0)>>)

\* fourteen rows, the least number for which three rows are held out; rows
\* of two kinds
FourteenRowTable ==
    Table(Header, [i \in 1..14 |-> IF i \in {4, 9} THEN Row(i, 0, 0, 0) ELSE Row(i, 1, 1, 0)])

\* the two tables above, and every table of up to MaxRows rows in which f1
\* identifies the row, the labels vary and f2 is constant
SplitTables ==
    {SevenRowTable, FourteenRowTable} \cup
    UNION {{Table(Header, [i \in 1..n |-> Row(i, i, st[i], 0)]) : st \in [1..n -> Labels]}
           : n \in 0..MaxRows}

\* a column of 0.45 throughout beside the column 1.00, 3.00, 6.00
ThreeRowTable ==
    Table(Header, <<Row(1, 45, 1, 100), Row(2, 45, 0, 300), Row(3, 45, 1, 600)>>)

\* tables whose first feature is any multiple of 0.45 up to MaxVal times
\* 0.45 either way; labels alternate, f2 identifies the row
ScaleTables ==
    {ThreeRowTable} \cup
    UNION {{Table(Header, [i \in 1..n |-> Row(i, 45 * f[i], i % 2, i)])
              : f \in [1..n -> (-MaxVal)..MaxVal]}
           : n \in 0..MaxScaleRows}

GoodTable == Table(Header, <<Row(1, 0, 0, 5), Row(2, 1, 1, 5), Row(3, 2, 1, 7)>>)
PairTable == Table(Header, <<Row(1, 0, 0, 1), Row(2, 2, 1, 3)>>)
OneRowTable == Table(Header, <<Row(1, 0, 1, 1)>>)
NoStatusTable == Table(BadHeader, <<<<1, 0, 1>>, <<2, 1, 2>>, <<3, 2, 3>>>>)

DriverFiles == {Missing, GoodTable, OneRowTable, NoStatusTable}
TimeFiles == {PairTable, NoStatusTable}
TimeRuns == {1, 2}

UnitDur == [s \in Stages |-> 1]

----------------------------------------------------------------------------
(* The process *)

InitWith(R, D, U) ==
    /\ num_runs \in R
    /\ disk \in D
    /\ dur \in U
    /\ pc = "for"
    /\ iter = 0
    /\ run = -1
    /\ results = <<>>
    /\ now = 0
    /\ t0 = 0
    /\ time_len = 0
    /\ data = Missing
    /\ x = <<>> /\ y = <<>>
    /\ x_train = <<>> /\ x_test = <<>> /\ y_train = <<>> /\ y_test = <<>>
    /\ model = Unfitted
    /\ y_pred = <<>>
    /\ accuracy = NoValue
    /\ stdout = <<>>
    /\ shown = <<>>
    /\ out = NoFile
    /\ exitcode = -1
    /\ error = "none"
    /\ reads = 0
    /\ writes = 0
    /\ trace = <<>>

Init == InitWith(0..MaxRuns, DriverFiles, {UnitDur})
InitTime == InitWith(TimeRuns, TimeFiles, [Stages -> 0..MaxTick])
InitSplit == InitWith({1}, SplitTables, {UnitDur})
InitScale == InitWith({1}, ScaleTables, {UnitDur})

\* the interpreter ends the process: exit(code), or an uncaught exception
Halt(code, err) ==
    /\ pc' = "halt"
    /\ exitcode' = code
    /\ error' = err

Tick(stage) == now' = now + dur[stage]
Done(stage) == trace' = Append(trace, <<run, stage>>)

\* for run in range(num_runs):
For ==
    /\ pc = "for"
    /\ IF iter < num_runs
         THEN /\ run' = iter
              /\ iter' = iter + 1
              /\ pc' = "construct"
         ELSE /\ pc' = "savetxt"
              /\ UNCHANGED <<run, iter>>
    /\ UNCHANGED <<inputs, results, now, t0, time_len, data, obj, stdout, shown,
                   out, exitcode, error, reads, writes, trace>>

\* pd.read_csv raises when the file is absent; a file that is there may
\* still be unreadable or unparsable
CanRead(f) == IF f.present THEN BOOLEAN ELSE {FALSE}

\* variant: the table is read by the first run only and kept for the others
Load_Cached ==
    /\ pc = "construct"
    /\ TRUE \in CanRead(disk)
    /\ reads' = (IF reads = 0 THEN reads + 1 ELSE reads)
    /\ Tick("load")
    /\ data' = (IF reads = 0 THEN ReadCsv(disk) ELSE data)
    /\ x' = <<>> /\ y' = <<>>
    /\ x_train' = <<>> /\ x_test' = <<>> /\ y_train' = <<>> /\ y_test' = <<>>
    /\ model' = Unfitted
    /\ y_pred' = <<>>
    /\ accuracy' = NoValue
    /\ Done("Load")
    /\ pc' = "pre_process"
    /\ UNCHANGED <<inputs, iter, run, results, t0, time_len, stdout, shown,
                   out, exitcode, error, writes>>

\* parkinsons = Model(), read_csv succeeds: a new object that holds only data
Load ==
    /\ pc = "construct"
    /\ TRUE \in CanRead(disk)
    /\ reads' = reads + 1
    /\ Tick("load")
    /\ data' = ReadCsv(disk)
    /\ x' = <<>> /\ y' = <<>>
    /\ x_train' = <<>> /\ x_test' = <<>> /\ y_train' = <<>> /\ y_test' = <<>>
    /\ model' = Unfitted
    /\ y_pred' = <<>>
    /\ accuracy' = NoValue
    /\ Done("Load")
    /\ pc' = "pre_process"
    /\ UNCHANGED <<inputs, iter, run, results, t0, time_len, stdout, shown,
                   out, exitcode, error, writes>>

\* variant: the handler prints the message and does not exit
LoadFail_NoExit ==
    /\ pc = "construct"
    /\ FALSE \in CanRead(disk)
    /\ reads' = reads + 1
    /\ Tick("load")
    /\ stdout' = Append(stdout, <<"parkinsons.data not found">>)
    /\ Done("Load")
    /\ pc' = "pre_process"
    /\ UNCHANGED <<inputs, iter, run, results, t0, time_len, data, obj, shown,
                   out, exitcode, error, writes>>

\* parkinsons = Model(), read_csv raises: print and exit(1)
LoadFail ==
    /\ pc = "construct"
    /\ FALSE \in CanRead(disk)
    /\ reads' = reads + 1
    /\ Tick("load")
    /\ stdout' = Append(stdout, <<"parkinsons.data not found">>)
    /\ Halt(LoaderExitCode, "SystemExit")
    /\ UNCHANGED <<inputs, iter, run, results, t0, time_len, data, obj, shown,
                   out, writes, trace>>

HasStatus(tbl) == "status" \in Range(tbl.columns)
\* check_array: at least one sample and one feature
ScalerAccepts(X) == Len(X) >= 1 /\ Len(X[1]) >= 1
\* _validate_shuffle_split: the train set must not be empty
SplitAccepts(X) == NTrain(Len(X)) >= 1

PreProcessOk(tbl) ==
    /\ HasStatus(tbl)
    /\ ScalerAccepts(FeatureMatrix(tbl))
    /\ SplitAccepts(FeatureMatrix(tbl))

\* parkinsons.pre_process() returns
PreProcess ==
    /\ pc = "pre_process"
    /\ PreProcessOk(data)
    /\ \E xs \in {FitTransform(FeatureMatrix(data))} :
          \E sh \in Shuffled(xs, LabelVector(data)) :
             LET sp == TrainTestSplit(xs, LabelVector(data), sh)
             IN  /\ x' = xs
                 /\ y' = LabelVector(data)
                 /\ x_train' = sp.x_train
                 /\ x_test' = sp.x_test
                 /\ y_train' = sp.y_train
                 /\ y_test' = sp.y_test
    /\ Tick("pre_process")
    /\ Done("Preprocess")
    /\ pc' = "t0"
    /\ UNCHANGED <<inputs, iter, run, results, t0, time_len, data, model, y_pred,
                   accuracy, stdout, shown, out, exitcode, error, reads, writes>>

\* parkinsons.pre_process() raises: KeyError at line 60, ValueError at 63 or 68
PreProcessFail ==
    /\ pc = "pre_process"
    /\ ~PreProcessOk(data)
    /\ IF ~HasStatus(data)
         THEN /\ x' = FeatureMatrix(data)
              /\ y' = y
              /\ Halt(UncaughtExitCode, "KeyError")
         ELSE /\ x' = IF ScalerAccepts(FeatureMatrix(data))
                         THEN FitTransform(FeatureMatrix(data))
                         ELSE FeatureMatrix(data)
              /\ y' = LabelVector(data)
              /\ Halt(UncaughtExitCode, "ValueError")
    /\ Tick("pre_process")
    /\ UNCHANGED <<inputs, iter, run, results, t0, time_len, data,
                   x_train, x_test, y_train, y_test, model, y_pred,
                   accuracy, stdout, shown, out, reads, writes, trace>>

\* t0 = time.time()
T0 ==
    /\ pc = "t0"
    /\ t0' = now
    /\ pc' = "fit"
    /\ UNCHANGED <<inputs, iter, run, results, now, time_len, data, obj, stdout,
                   shown, out, exitcode, error, reads, writes, trace>>

\* train(): XGBClassifier(...).fit(x_train, y_train, eval_set) returns
Fit ==
    /\ pc = "fit"
    /\ ValidClasses(y_train)
    /\ model' = [fitted |-> TRUE, classes |-> Classes(y_train)]
    /\ stdout' = stdout \o EvalLog
    /\ Tick("fit")
    /\ Done("Train")
    /\ pc' = "predict"
    /\ UNCHANGED <<inputs, iter, run, results, t0, time_len, data, x, y,
                   x_train, x_test, y_train, y_test, y_pred, accuracy,
                   shown, out, exitcode, error, reads, writes>>

\* variant: a failed fit is retried on a fresh split
FitFail_Retry ==
    /\ pc = "fit"
    /\ ~ValidClasses(y_train)
    /\ Tick("fit")
    /\ pc' = "pre_process"
    /\ UNCHANGED <<inputs, iter, run, results, t0, time_len, data, obj, stdout,
                   shown, out, exitcode, error, reads, writes, trace>>

\* variant: the records gathered so far are written before the process dies
FitFail_Salvage ==
    /\ pc = "fit"
    /\ ~ValidClasses(y_train)
    /\ Tick("fit")
    /\ out' = SaveTxt(results)
    /\ writes' = writes + 1
    /\ Halt(UncaughtExitCode, "ValueError")
    /\ UNCHANGED <<inputs, iter, run, results, t0, time_len, data, obj, stdout,
                   shown, reads, trace>>

\* train(): fit raises ValueError, the training labels are not 0..k-1
FitFail ==
    /\ pc = "fit"
    /\ ~ValidClasses(y_train)
    /\ Tick("fit")
    /\ Halt(UncaughtExitCode, "ValueError")
    /\ UNCHANGED <<inputs, iter, run, results, t0, time_len, data, obj, stdout,
                   shown, out, reads, writes, trace>>

\* train(): predict, accuracy_score, print
Predict ==
    /\ pc = "predict"
    /\ \E yp \in [1..Len(y_test) -> PredLabels(model)] :
          /\ y_pred' = yp
          /\ accuracy' = AccuracyPct(y_test, yp)
          /\ stdout' = Append(stdout, <<"Accuracy: ", F64Trunc(AccuracyPct(y_test, yp))>>)
    /\ Tick("predict")
    /\ pc' = "plot_loss"
    /\ UNCHANGED <<inputs, iter, run, results, t0, time_len, data, x, y,
                   x_train, x_test, y_train, y_test, model, shown, out,
                   exitcode, error, reads, writes, trace>>

Figure(title, cells) == [run |-> run, title |-> title, cells |-> cells]

\* train(): learning curves, plt.show() blocks until the window is closed
PlotLoss ==
    /\ pc = "plot_loss"
    /\ shown' = Append(shown, Figure("XGBoost Learning Curves", <<>>))
    /\ Tick("plot_loss")
    /\ pc' = "plot_cm"
    /\ UNCHANGED <<inputs, iter, run, results, t0, time_len, data, obj, stdout,
                   out, exitcode, error, reads, writes, trace>>

\* train(): confusion matrix heat map, plt.show() blocks; train() returns
PlotCM ==
    /\ pc = "plot_cm"
    /\ shown' = Append(shown, Figure("XGBoost Confusion Matrix", ConfusionMatrix(y_test, y_pred)))
    /\ Tick("plot_cm")
    /\ Done("Evaluate")
    /\ pc' = "time_len"
    /\ UNCHANGED <<inputs, iter, run, results, t0, time_len, data, obj, stdout,
                   out, exitcode, error, reads, writes>>

\* time_len = time.time() - t0
Elapsed ==
    /\ pc = "time_len"
    /\ time_len' = TimeLen(now, t0)
    /\ pc' = "append"
    /\ UNCHANGED <<inputs, iter, run, results, now, t0, data, obj, stdout, shown,
                   out, exitcode, error, reads, writes, trace>>

\* variant: the file is rewritten after every run
AppendResult_Flush ==
    /\ pc = "append"
    /\ results' = Append(results, ResultsArr(run, accuracy, time_len))
    /\ out' = SaveTxt(Append(results, ResultsArr(run, accuracy, time_len)))
    /\ writes' = writes + 1
    /\ pc' = "for"
    /\ UNCHANGED <<inputs, iter, run, now, t0, time_len, data, obj, stdout, shown,
                   exitcode, error, reads, trace>>

\* results.append([run, parkinsons.accuracy, time_len])
AppendResult ==
    /\ pc = "append"
    /\ results' = Append(results, ResultsArr(run, accuracy, time_len))
    /\ pc' = "for"
    /\ UNCHANGED <<inputs, iter, run, now, t0, time_len, data, obj, stdout, shown,
                   out, exitcode, error, reads, writes, trace>>

\* np.savetxt('xgboost_results.csv', results, delimiter=','), then exit 0
Save ==
    /\ pc = "savetxt"
    /\ out' = SaveTxt(results)
    /\ writes' = writes + 1
    /\ Halt(0, "none")
    /\ UNCHANGED <<inputs, iter, run, results, now, t0, time_len, data, obj,
                   stdout, shown, reads, trace>>

Next ==
    \/ For
    \/ Load
    \/ LoadFail
    \/ PreProcess
    \/ PreProcessFail
    \/ T0
    \/ Fit
    \/ FitFail
    \/ Predict
    \/ PlotLoss
    \/ PlotCM
    \/ Elapsed
    \/ AppendResult
    \/ Save

Spec == Init /\ [][Next]_vars
SpecTime == InitTime /\ [][Next]_vars
SpecSplit == InitSplit /\ [][Next]_vars
SpecScale == InitScale /\ [][Next]_vars

----------------------------------------------------------------------------
(* Properties of the driver *)

Finished == pc = "halt" /\ error = "none"
Failed == pc = "halt" /\ error # "none"
NotFoundLine == <<"parkinsons.data not found">>
LossTitle == "XGBoost Learning Curves"
MatrixTitle == "XGBoost Confusion Matrix"

\* ticks spent inside train(): fit, predict and the two blocking displays
TrainTicks == dur["fit"] + dur["predict"] + dur["plot_loss"] + dur["plot_cm"]

\* |f * q - p| <= c * 2^-k, for a float f and integers p, q > 0, c > 0
Close(f, p, q, c, k) ==
    LET sh == IF f.exp < 0 THEN -f.exp ELSE 0
        A  == BMulSmall(IF f.exp > 0 THEN BShl(f.man, f.exp) ELSE f.man, q)
        P  == BShl(BFromInt(Abs(p)), sh)
        D  == IF Sgn(p) # f.sign THEN BAdd(A, P)
              ELSE IF BCmp(A, P) >= 0 THEN BSub(A, P) ELSE BSub(P, A)
    IN  BCmp(BShl(D, k), BShl(BFromInt(c), sh)) <= 0

Diagonal(m) == SumSeq([a \in 1..Len(m) |-> m[a][a]])
CellSum(m) == SumSeq([a \in 1..Len(m) |-> SumSeq(m[a])])

\* C1: when all N >= 1 runs complete, the output file holds exactly N rows;
\* row i carries run_index i, the accuracy evaluated in run i (the one run
\* i printed after the lines of its fit, and the one its confusion matrix
\* gives) and the time measured in run i.
C1_RowPerRun ==
    (Finished /\ num_runs >= 1) =>
        /\ out.exists
        /\ Len(out.rows) = num_runs
        /\ \A i \in 0..(num_runs - 1) :
              LET row == out.rows[i + 1]
                  cm  == shown[2 * i + 2]
              IN  /\ Len(row) = 3
                  /\ row[1] = F64FromInt(i)
                  /\ stdout[(i + 1) * (NEstimators + 1)] = <<"Accuracy: ", F64Trunc(row[2])>>
                  /\ cm.run = i /\ cm.title = MatrixTitle
                  /\ row[2] = F64MulInt(100, F64Div(Diagonal(cm.cells), CellSum(cm.cells)))
                  /\ row[3] = F64FromInt(TrainTicks)

C1_Witness ==
    /\ Finished
    /\ num_runs = 3
    /\ Len(out.rows) = 3
    /\ out.rows[1][2] # out.rows[2][2]

\* C2: a file that cannot be loaded makes the process print the message and
\* end with exit code 1 without creating the output file; a process that
\* completes all runs ends with exit code 0.
C2_ExitCodes ==
    /\ (~disk.present /\ reads >= 1) =>
          /\ pc = "halt"
          /\ exitcode = 1
          /\ stdout # <<>> /\ stdout[Len(stdout)] = NotFoundLine
          /\ ~out.exists
    /\ (error = "SystemExit") =>
          /\ pc = "halt"
          /\ exitcode = 1
          /\ stdout # <<>> /\ stdout[Len(stdout)] = NotFoundLine
          /\ ~out.exists
    /\ Finished => exitcode = 0
    /\ (pc # "halt") => exitcode = -1

C2_Witness ==
    /\ ~disk.present
    /\ reads = 1
    /\ exitcode = 1
    /\ num_runs >= 1

\* C3: the output file is written at most once, and only once every run
\* has finished its Evaluate stage and appended its record; a process that
\* completes writes it exactly once.
C3_FlushOnceAtEnd ==
    /\ writes <= 1
    /\ out.exists <=> (writes = 1)
    /\ (pc \notin {"savetxt", "halt"}) => writes = 0
    /\ (writes = 1) =>
          /\ Finished
          /\ iter = num_runs
          /\ Len(results) = num_runs
          /\ Cardinality({k \in 1..Len(trace) : trace[k][2] = "Evaluate"}) = num_runs
          /\ (num_runs >= 1) => trace[Len(trace)] = <<num_runs - 1, "Evaluate">>
    /\ Finished => writes = 1

C3_Witness ==
    /\ writes = 1
    /\ num_runs >= 2
    /\ Len(out.rows) = num_runs

\* C4 as stated: a process that completes N >= 1 runs has read the input
\* file exactly one time.
C4_LoadedOncePerProcess ==
    (Finished /\ num_runs >= 1) => reads = 1

\* C4 amended: the input file is read once per run, so a process that
\* completes N runs has read it N times; the object a run works on is new
\* and holds only the table until pre_process fills it.
C4_LoadedOncePerRun ==
    /\ reads = (IF pc = "construct" THEN iter - 1 ELSE iter)
    /\ Finished => reads = num_runs
    /\ (pc = "pre_process") =>
          /\ data = ReadCsv(disk)
          /\ x = <<>> /\ y = <<>>
          /\ x_train = <<>> /\ x_test = <<>> /\ y_train = <<>> /\ y_test = <<>>
          /\ model = Unfitted
          /\ y_pred = <<>> /\ accuracy = NoValue
    /\ (pc \in {"t0", "fit"}) => (x # <<>> /\ x_train # <<>> /\ ~model.fitted)
    /\ (pc \in {"predict", "plot_loss", "plot_cm", "time_len", "append"}) => model.fitted

C4_Witness ==
    /\ pc = "pre_process"
    /\ run = 1
    /\ reads = 2
    /\ Len(results) = 1

StagePattern == <<"Load", "Preprocess", "Train", "Evaluate">>
StagesBefore ==
    [p \in {"construct", "pre_process", "t0", "fit", "predict", "plot_loss",
            "plot_cm", "time_len", "append"} |->
        CASE p = "construct" -> 0
          [] p = "pre_process" -> 1
          [] p \in {"t0", "fit"} -> 2
          [] p \in {"predict", "plot_loss", "plot_cm"} -> 3
          [] OTHER -> 4]

\* C5: the stages completed so far are always a prefix of Load, Preprocess,
\* Train, Evaluate of run 0, then of run 1, and so on: each stage once per
\* run, in order, none skipped or repeated, and a run's Load only after the
\* previous run's Evaluate.
C5_StageOrder ==
    /\ \A k \in 1..Len(trace) :
          trace[k] = <<(k - 1) \div 4, StagePattern[((k - 1) % 4) + 1]>>
    /\ (pc \in DOMAIN StagesBefore) => Len(trace) = 4 * run + StagesBefore[pc]
    /\ (pc \in {"for", "savetxt"}) => Len(trace) = 4 * iter
    /\ Len(results) = Len(trace) \div 4 - (IF pc \in {"time_len", "append"} THEN 1 ELSE 0)

C5_Witness ==
    /\ pc = "for"
    /\ Len(trace) = 8
    /\ trace[5] = <<1, "Load">>

\* C9: a process that a failing stage ended has not written the output
\* file, whatever records earlier runs had accumulated.
C9_NoSalvage ==
    /\ (error # "none") => pc = "halt"
    /\ Failed => (~out.exists /\ writes = 0 /\ exitcode = 1)

C9_Witness ==
    /\ Failed
    /\ error = "ValueError"
    /\ Len(results) >= 1
    /\ run = Len(results)
    /\ ~out.exists

\* C10: the elapsed time of every result record is the time spent in fit,
\* predict and the two displays of that run, and nothing of Load and
\* Preprocess; the loss curve is displayed before the confusion matrix, both
\* between the two clock readings.
C10_ElapsedIsTrain ==
    /\ \A i \in 1..Len(results) : results[i][3] = TrainTicks
    /\ (pc = "append") => time_len = TrainTicks
    /\ \A k \in 1..Len(shown) :
          /\ shown[k].run = (k - 1) \div 2
          /\ shown[k].title = (IF k % 2 = 1 THEN LossTitle ELSE MatrixTitle)
    /\ (pc \in {"t0", "fit", "predict", "plot_loss"}) => Len(shown) = 2 * run
    /\ (pc \in {"time_len", "append"}) => Len(shown) = 2 * (run + 1)

C10_Witness ==
    /\ Len(results) = 2
    /\ dur["load"] = 1 /\ dur["pre_process"] = 1
    /\ dur["fit"] = 1 /\ dur["predict"] = 0
    /\ dur["plot_loss"] = 1 /\ dur["plot_cm"] = 0
    /\ results[2][3] = 2

----------------------------------------------------------------------------
(* Properties of pre_process and of the evaluation in train *)

\* pre_process has returned in the current run
SplitDone == x_train # <<>>

PairCount(p, xs, ys) == Cardinality({i \in 1..Len(xs) : <<xs[i], ys[i]>> = p})
Pairs(xs, ys) == {<<xs[i], ys[i]>> : i \in 1..Len(xs)}
DistinctRows(xs) == \A i, j \in 1..Len(xs) : xs[i] = xs[j] => i = j

\* round(0.15 * n), ties to even
Round15(n) ==
    LET q == (TestSizePct * n) \div 100
        r == (TestSizePct * n) % 100
    IN  IF r < 50 THEN q
        ELSE IF r > 50 THEN q + 1
        ELSE IF q % 2 = 0 THEN q ELSE q + 1

\* C6: after pre_process the (x row, y label) pairs of train and test
\* together are exactly the pairs of the full data, each row on one side
\* only, and the number of test rows is within 1 of round(0.15 * N).
C6_SplitPartition ==
    SplitDone =>
        /\ Len(x) = Len(data.rows) /\ Len(y) = Len(x)
        /\ Len(x_train) = Len(y_train)
        /\ Len(x_test) = Len(y_test)
        /\ Len(x_train) + Len(x_test) = Len(x)
        /\ Len(x_test) >= 1
        /\ \A p \in Pairs(x, y) \cup Pairs(x_train, y_train) \cup Pairs(x_test, y_test) :
              PairCount(p, x_train, y_train) + PairCount(p, x_test, y_test)
                  = PairCount(p, x, y)
        /\ DistinctRows(x) =>
              /\ Range(x_train) \cap Range(x_test) = {}
              /\ Range(x_train) \cup Range(x_test) = Range(x)
        /\ Abs(Len(x_test) - Round15(Len(x))) <= 1

C6_Witness ==
    /\ SplitDone
    /\ Len(x) = 7
    /\ Len(x_test) = 2
    /\ Round15(Len(x)) = 1
    /\ x_test[1] # x_test[2]
    /\ y_test = <<0, 1>>

\* the confusion matrix on display belongs to the predictions in memory
MatrixShown ==
    /\ y_pred # <<>>
    /\ shown # <<>>
    /\ shown[Len(shown)].title = MatrixTitle
    /\ shown[Len(shown)].run = run

Right == Cardinality({i \in 1..Len(y_test) : y_pred[i] = y_test[i]})

MatrixFacts ==
    MatrixShown =>
        LET cm == shown[Len(shown)].cells
            k  == Cardinality(Range(y_test) \cup Range(y_pred))
        IN  /\ Len(cm) = k
            /\ \A a \in 1..Len(cm) : Len(cm[a]) = k
            /\ CellSum(cm) = Len(y_test)
            /\ Diagonal(cm) = Right

\* C7 as stated: the accuracy equals 100 * (test rows predicted right) /
\* (test rows), that is, it is the float nearest to that quotient, and lies
\* in [0, 100]; the confusion matrix is square, as large as the number of
\* distinct labels among true and predicted test labels, and its cells sum
\* to the number of test rows.
C7_ExactAccuracy ==
    /\ (y_pred # <<>>) =>
          /\ Len(y_pred) = Len(y_test)
          /\ accuracy = F64Div(100 * Right, Len(y_test))
          /\ F64Leq(F64Zero, accuracy) /\ F64Leq(accuracy, F64FromInt(100))
    /\ MatrixFacts

\* C7 amended: the accuracy is (right / rows) * 100 in float64 arithmetic,
\* which is within 2^-45 of 100 * right / rows but not always the float
\* nearest to it, and lies in [0, 100]; the confusion matrix is as stated.
C7_Evaluation ==
    /\ (y_pred # <<>>) =>
          /\ Len(y_pred) = Len(y_test)
          /\ Close(accuracy, 100 * Right, Len(y_test), Len(y_test), 45)
          /\ F64Leq(F64Zero, accuracy) /\ F64Leq(accuracy, F64FromInt(100))
          /\ (Right = Len(y_test)) => accuracy = F64FromInt(100)
          /\ (Right = 0) => accuracy = F64Zero
    /\ MatrixFacts

C7_Witness ==
    /\ MatrixShown
    /\ y_test = <<1, 0, 1>>
    /\ y_pred = <<1, 1, 0>>
    /\ shown[Len(shown)].cells = <<<<0, 1>>, <<1, 1>>>>
    /\ accuracy # F64Div(100, 3)
    /\ stdout[Len(stdout)] = <<"Accuracy: ", 33>>

MinusOne == F64FromInt(FeatureRangeMin)
PlusOne == F64FromInt(FeatureRangeMax)
InRange(v) == F64Leq(MinusOne, v) /\ F64Leq(v, PlusOne)
AllInRange(xs) == \A i \in 1..Len(xs) : \A j \in 1..Len(xs[i]) : InRange(xs[i][j])

Low(raw, j) == F64Min({raw[i][j] : i \in 1..Len(raw)})
High(raw, j) == F64Max({raw[i][j] : i \in 1..Len(raw)})
Largest(raw, j) == F64Max({DyAbs(raw[i][j]) : i \in 1..Len(raw)})
\* the number the scaler divides by: the exact range of the column, or 1
\* for a column of equal values
Divisor(low, high) == IF low = high THEN F64FromInt(1) ELSE DySub(high, low)
\* 2^-50 * (divisor + largest)
Slack(divisor, largest) == DyShift(DyAdd(divisor, largest), -50)

\* |s - (2 * (v - low) / divisor - 1)| <= 2^-50 * (1 + largest / divisor),
\* both sides multiplied by the divisor and computed exactly
Placed(s, v, low, divisor, slack) ==
    \A above \in {DySub(v, low)} :
        \A place \in {DySub(DyShift(above, 1), divisor)} :
            \A image \in {DyMul(s, divisor)} :
                \A off \in {DySub(image, place)} : DyLeq(DyAbs(off), slack)

\* |s| <= 1 + 2^-50 * (1 + largest / divisor)
NearRange(s, divisor, slack) ==
    \A image \in {DyMul(DyAbs(s), divisor)} :
        \A most \in {DyAdd(divisor, slack)} : DyLeq(image, most)

\* C8 as stated: after scaling, every column (a column of equal values
\* included) has its minimum at -1 and its maximum at 1, and all values of
\* train and test lie in [-1, 1].
C8_EveryColumnSpansRange ==
    SplitDone =>
        /\ \A j \in 1..Len(x[1]) :
              /\ \E i \in 1..Len(x) : x[i][j] = MinusOne
              /\ \E i \in 1..Len(x) : x[i][j] = PlusOne
        /\ AllInRange(x_train) /\ AllInRange(x_test)

\* C8 amended: every value v of a column is mapped to within
\* 2^-50 * (1 + largest / divisor) of 2 * (v - low) / divisor - 1, where
\* divisor is the range of the column, or 1 when its values are all equal:
\* the minimum is at -1 and, unless the values are all equal, the maximum
\* at 1, up to rounding only; a column of equal values is at -1 up to
\* rounding throughout. All values of train and test lie in [-1, 1] up to
\* that rounding.
C8_ScaledColumns ==
    SplitDone =>
        \A raw \in {FeatureMatrix(data)} : \A j \in 1..Len(x[1]) :
            \A low \in {Low(raw, j)} : \A high \in {High(raw, j)} :
                \A largest \in {Largest(raw, j)} : \A divisor \in {Divisor(low, high)} :
                    \A slack \in {Slack(divisor, largest)} :
                        /\ \A i \in 1..Len(x) :
                              Placed(x[i][j], raw[i][j], low, divisor, slack)
                        /\ \A i \in 1..Len(x_train) :
                              NearRange(x_train[i][j], divisor, slack)
                        /\ \A i \in 1..Len(x_test) :
                              NearRange(x_test[i][j], divisor, slack)

C8_Witness ==
    /\ SplitDone
    /\ disk = ThreeRowTable
    /\ \A i \in 1..3 : x[i][1] # MinusOne /\ InRange(x[i][1])
    /\ x[1][2] # MinusOne /\ InRange(x[1][2])
    /\ x[3][2] # PlusOne /\ ~InRange(x[3][2])
    /\ x_test = <<x[3]>>

====
